---- MODULE Spec2Model ----
(***************************************************************************)
(* Model of src/native/tsclientlib-node/src/lib.rs: the TeamSpeakClient    *)
(* handle (connect, disconnect, pushFrame, refresh_worker_state) and the   *)
(* control loop run_client it spawns.                                      *)
(*                                                                         *)
(* Host calls to the async functions connect/disconnect run on the tokio   *)
(* runtime, concurrently with pushFrame and with every loop task.  Each    *)
(* write of control_tx or join, each read the call branches on and each    *)
(* await is a step of its own.  A store of `connected` is taken together   *)
(* with the access to control_tx next to it in the code: the handle reads  *)
(* the flag nowhere but in isConnected, so the store commutes with every   *)
(* step of the other callers, and a loop that acts between the two is the  *)
(* loop acting after both.  pushFrame is a synchronous call and is one     *)
(* step.  A loop task takes one step per poll of its select!, except that  *)
(* a step that resolves a oneshot channel ends there: the rest of that     *)
(* handler (store, emits, return) is the following step, LoopExit.         *)
(*                                                                         *)
(* emit() is modelled with a callback registered: events[s] is the list of *)
(* events the loop of session s handed to the Event Bridge.                *)
(***************************************************************************)
EXTENDS Integers, Sequences, FiniteSets, TLC

\* ---- bounds of the model ------------------------------------------------
\* Capacity of the command queue.  lib.rs:112 creates mpsc::channel(256);
\* the model scales the capacity down.
Capacity == 2
\* pushFrame is accepted only while fewer than MaxPush commands were enqueued
\* for the session.
MaxPush == 2
\* Temporary-disconnect notices one session's stream delivers.
MaxTemp == 1

\* Frames one participant's AudioHandler buffers.
MaxBuf == 2

\* Windows (frames) of one PushFrame command.
MaxWindows == 2

\* Samples of one frame.  lib.rs:24 has FRAME_SAMPLES = SAMPLE_RATE / 50 = 960;
\* the model scales the frame down.
FrameSamples == 4
\* Longest sample buffer handed to to_frames, and the sample values used.
MaxSamples == 10
SampleValues == {-1, 0, 1}

\* Remote participants (ClientId), and the value of a participant without an
\* entry in speaker_handlers.
Participants == {"p1"}
Absent == -1
\* Every participant a handler can exist for: speaker_handlers is a map over
\* Talkers; the participants of SpecMixer all send audio, in SpecAudio only
\* the ones in Participants do.
Talkers == {"p1", "p2"}
NoSpeakers == [p \in Talkers |-> Absent]

\* The callers of connect/disconnect (Host: the one of a host that awaits each
\* call before the next), and the slots for loop tasks: a slot holds one task
\* from its spawn until the task has finished and no sender, JoinHandle or
\* local of a call names it; the next spawn may then take the slot, starting
\* from the state of a fresh task.
Callers == {"a", "b"}
Host == {"a"}
Sessions == {"s1", "s2"}
SlotOrder == <<"s1", "s2">>
NoSession == "none"

VARIABLES
  control_tx,   \* TeamSpeakClient.control_tx: NoSession (None) or the session whose queue the sender feeds
  join,         \* TeamSpeakClient.join: NoSession (None) or the session whose task the JoinHandle names
  connected,    \* TeamSpeakClient.connected (AtomicBool, shared with every loop)
  identity,     \* TeamSpeakClient.identity: NoSession (None) or the session whose connect stored its identity string
  cop,          \* per caller: the async call it is in, "none" | "connect" | "disconnect"
  cpc,          \* per caller: its position in that call
  csess,        \* per caller: the session of its local sender clone / spawned loop / taken JoinHandle
  done,         \* per caller: state of the oneshot `done` of its Disconnect command
  lpc,          \* per session: position of run_client
  why,          \* per session: the return path run_client is on
  control_rx,   \* per session: the queued ControlMessages
  ready,        \* per session: state of the oneshot ready_tx/ready_rx
  events,       \* per session: lifecycle events emitted
  enq,          \* per session: number of commands enqueued so far (the stamp of the newest)
  lastDeq,      \* per session: stamp of the command dequeued last
  deqCount,     \* per session: number of commands dequeued
  drainBy,      \* per session: the caller whose Disconnect the loop dequeued
  last,         \* the call that returned last, with its result: "<call>:<result>"
  ticker,       \* per session: the interval `ticker`: "idle" | "due" (its deadline has passed)
  owed,         \* per session: "no", or where the loop was ("select" | "drain") when a tick elapsed with the flag true that no audioMixed has answered yet
  speaker_handlers, \* per session: participant -> frames buffered in its AudioHandler, or Absent
  audio,        \* per session: the audio events of the latest emit_audio_frames call
  mixer,        \* per session: the steps of the latest emit_audio_frames call, in the order the code takes them (recorded by LoopTickSteps)
  encoder,      \* per session: the outcomes and the steps of the latest PushFrame command processed (recorded by LoopPushFrameSteps)
  pipeline      \* one run of to_frames: its input samples, its result, and whether it was applied

hvars == <<control_tx, join, connected, identity>>
cvars == <<cop, cpc, csess, done, last>>
lvars == <<lpc, why, control_rx, ready, events, enq, lastDeq, deqCount, drainBy>>
avars == <<ticker, owed, speaker_handlers, audio, mixer, encoder, pipeline>>
vars == <<control_tx, join, connected, identity, cop, cpc, csess, done,
          lpc, why, control_rx, ready, events, enq, lastDeq, deqCount, drainBy,
          last, ticker, owed, speaker_handlers, audio, mixer, encoder, pipeline>>

\* No PushFrame command processed yet.
NoEncoder == [outcomes |-> <<>>, steps |-> <<>>]

\* No run of to_frames under way.
NoPipeline == [samples |-> <<>>, frames |-> <<>>, applied |-> FALSE]

\* ---- TeamSpeakClient::new ------------------------------------------------
InitHandle ==
  /\ control_tx = NoSession
  /\ join = NoSession
  /\ connected = FALSE
  /\ identity = NoSession
  /\ cop = [c \in Callers |-> "none"]
  /\ cpc = [c \in Callers |-> "idle"]
  /\ csess = [c \in Callers |-> NoSession]
  /\ done = [c \in Callers |-> "none"]
  /\ lpc = [s \in Sessions |-> "unspawned"]
  /\ why = [s \in Sessions |-> "none"]
  /\ control_rx = [s \in Sessions |-> <<>>]
  /\ ready = [s \in Sessions |-> "none"]
  /\ events = [s \in Sessions |-> <<>>]
  /\ enq = [s \in Sessions |-> 0]
  /\ lastDeq = [s \in Sessions |-> 0]
  /\ deqCount = [s \in Sessions |-> 0]
  /\ drainBy = [s \in Sessions |-> "none"]
  /\ last = "none"
  /\ ticker = [s \in Sessions |-> "idle"]
  /\ owed = [s \in Sessions |-> "no"]
  /\ speaker_handlers = [s \in Sessions |-> NoSpeakers]
  /\ audio = [s \in Sessions |-> <<>>]
  /\ mixer = [s \in Sessions |-> <<>>]
  /\ encoder = [s \in Sessions |-> NoEncoder]

Init == InitHandle /\ pipeline = NoPipeline

\* ---- helpers ---------------------------------------------------------------
\* JoinHandle::is_finished / the receiver half dropped: the task's future is gone.
IsFinished(s) == lpc[s] = "finished"

\* emit(): one more event handed to the Event Bridge.
Emit(evs, name) == Append(evs, name)

\* TeamSpeakClient::is_connected
isConnected == connected

\* The `disconnected` events, by reason (lib.rs:363-367, 407-411, 437-441, 449-453).
Disconnected ==
  {"disconnected:stream_error", "disconnected:eof",
   "disconnected:disconnect_error", "disconnected:client_disconnect"}

\* Number of events of `evs` in the set `names`.
CountIn(evs, names) == Cardinality({i \in 1 .. Len(evs) : evs[i] \in names})
CountOf(evs, name) == CountIn(evs, {name})

\* A caller's call returns: its locals are dropped.
Return(c, r) ==
  /\ cpc' = [cpc EXCEPT ![c] = "idle"]
  /\ cop' = [cop EXCEPT ![c] = "none"]
  /\ csess' = [csess EXCEPT ![c] = NoSession]
  /\ last' = r

Goto(c, p) ==
  /\ cpc' = [cpc EXCEPT ![c] = p]
  /\ UNCHANGED <<cop, last>>

\* The first position of a call's body, after refresh_worker_state.
Body(c) == IF cop[c] = "connect" THEN "c_check" ELSE "d_clone"

\* ---- the task's future is dropped (return or abort) ------------------------
\* Callers whose Disconnect command is still queued for session s.
QueuedDisc(s) ==
  {control_rx[s][i].by : i \in {j \in 1 .. Len(control_rx[s]) : control_rx[s][j].kind = "disc"}}

\* Dropping the future drops control_rx with every queued command (and with
\* each queued Disconnect its `done` sender), a `done` sender held inside the
\* drain, and ready_tx when it was never taken.
DoneAfterDrop(s) ==
  [c \in Callers |->
     IF done[c] = "pending" /\ (c \in QueuedDisc(s) \/ (lpc[s] = "drain" /\ drainBy[s] = c))
     THEN "dropped" ELSE done[c]]

ReadyAfterDrop(s) == IF ready[s] = "pending" THEN "dropped" ELSE ready[s]

\* JoinHandle::abort (lib.rs:133): the task is cancelled where it awaits (not
\* yet polled, in select!, in the drain); a task in the middle of a poll, or
\* already finished, is not affected.
Abortable(s) == lpc[s] \in {"start", "select", "drain"}

Abort(s) ==
  IF Abortable(s)
  THEN /\ lpc' = [lpc EXCEPT ![s] = "finished"]
       /\ why' = [why EXCEPT ![s] = "aborted"]
       /\ control_rx' = [control_rx EXCEPT ![s] = <<>>]
       /\ ready' = [ready EXCEPT ![s] = ReadyAfterDrop(s)]
       /\ done' = DoneAfterDrop(s)
  ELSE UNCHANGED <<lpc, why, control_rx, ready, done>>

\* ---- refresh_worker_state (lib.rs:240-255) ---------------------------------
\* Positions of a connect call before it has spawned its loop.
PreSpawn == {"refresh_tx", "refresh_join", "c_check"}

\* Slots a spawn may take.
FreeSlots ==
  {s \in Sessions : /\ lpc[s] \in {"unspawned", "finished"}
                    /\ control_tx # s /\ join # s
                    /\ \A c \in Callers : csess[c] # s}

FirstFree ==
  SlotOrder[CHOOSE i \in 1 .. Len(SlotOrder) :
              /\ SlotOrder[i] \in FreeSlots
              /\ \A j \in 1 .. (i - 1) : SlotOrder[j] \notin FreeSlots]

\* The slots of finished tasks that nothing names go back to the pool: their
\* variables return to those of an unused slot.
Reclaimed(f, unused) ==
  [s \in Sessions |-> IF s \in FreeSlots THEN unused ELSE f[s]]

Reclaim ==
  /\ lpc' = Reclaimed(lpc, "unspawned")
  /\ why' = Reclaimed(why, "none")
  /\ control_rx' = Reclaimed(control_rx, <<>>)
  /\ ready' = Reclaimed(ready, "none")
  /\ events' = Reclaimed(events, <<>>)
  /\ enq' = Reclaimed(enq, 0)
  /\ lastDeq' = Reclaimed(lastDeq, 0)
  /\ deqCount' = Reclaimed(deqCount, 0)
  /\ drainBy' = Reclaimed(drainBy, "none")
  /\ ticker' = Reclaimed(ticker, "idle")
  /\ owed' = Reclaimed(owed, "no")
  /\ speaker_handlers' = Reclaimed(speaker_handlers, NoSpeakers)
  /\ audio' = Reclaimed(audio, <<>>)
  /\ mixer' = Reclaimed(mixer, <<>>)
  /\ encoder' = Reclaimed(encoder, NoEncoder)
  /\ UNCHANGED pipeline

\* A call starts: connect and disconnect both begin with refresh_worker_state,
\* which reads `finished` under the join lock (lib.rs:241-249).  A connect is
\* started only while a slot is left for the loop it may spawn.
Begin(c, op) ==
  /\ cpc[c] = "idle"
  /\ op = "connect" =>
       Cardinality({d \in Callers : cop[d] = "connect" /\ cpc[d] \in PreSpawn})
         < Cardinality(FreeSlots)
  /\ cop' = [cop EXCEPT ![c] = op]
  /\ cpc' = [cpc EXCEPT ![c] =
       IF join # NoSession /\ IsFinished(join) THEN "refresh_tx"
       ELSE IF op = "connect" THEN "c_check" ELSE "d_clone"]
  /\ done' = [done EXCEPT ![c] = "none"]
  /\ Reclaim
  /\ UNCHANGED <<csess, last, hvars>>

\* lib.rs:250-251
RefreshTx(c) ==
  /\ cpc[c] = "refresh_tx"
  /\ connected' = FALSE
  /\ control_tx' = NoSession
  /\ Goto(c, "refresh_join")
  /\ UNCHANGED <<csess, done, join, identity, lvars>>
  /\ UNCHANGED avars

\* lib.rs:252: the JoinHandle is taken and dropped (the task is detached).
RefreshJoin(c) ==
  /\ cpc[c] = "refresh_join"
  /\ join' = NoSession
  /\ Goto(c, Body(c))
  /\ UNCHANGED <<csess, done, connected, control_tx, identity, lvars>>
  /\ UNCHANGED avars

\* The whole of refresh_worker_state as pushFrame runs it, in one step:
\* the handle fields after it.
Refreshed ==
  IF join # NoSession /\ IsFinished(join)
  THEN [tx |-> NoSession, jn |-> NoSession, conn |-> FALSE]
  ELSE [tx |-> control_tx, jn |-> join, conn |-> connected]

\* tokio::spawn(run_client(..)) (lib.rs:120-122): a fresh task in slot s, with
\* the new channel's empty queue and the pending readiness channel.
Spawn(s) ==
  /\ lpc' = [lpc EXCEPT ![s] = "start"]
  /\ why' = [why EXCEPT ![s] = "none"]
  /\ control_rx' = [control_rx EXCEPT ![s] = <<>>]
  /\ ready' = [ready EXCEPT ![s] = "pending"]
  /\ events' = [events EXCEPT ![s] = <<>>]
  /\ enq' = [enq EXCEPT ![s] = 0]
  /\ lastDeq' = [lastDeq EXCEPT ![s] = 0]
  /\ deqCount' = [deqCount EXCEPT ![s] = 0]
  /\ drainBy' = [drainBy EXCEPT ![s] = "none"]
  /\ ticker' = [ticker EXCEPT ![s] = "idle"]
  /\ owed' = [owed EXCEPT ![s] = "no"]
  /\ speaker_handlers' = [speaker_handlers EXCEPT ![s] = NoSpeakers]
  /\ audio' = [audio EXCEPT ![s] = <<>>]
  /\ mixer' = [mixer EXCEPT ![s] = <<>>]
  /\ encoder' = [encoder EXCEPT ![s] = NoEncoder]
  /\ UNCHANGED pipeline

\* ---- TeamSpeakClient::connect (lib.rs:102-146) -----------------------------
\* A connect that stores the flag false before it checks for a sender.
ConnectCheck_StoresFirst(c) ==
  /\ cpc[c] = "c_check"
  /\ \/ /\ control_tx # NoSession
        /\ connected' = FALSE
        /\ Return(c, "connect:AlreadyActive")
        /\ UNCHANGED <<identity, lvars, avars>>
     \/ /\ control_tx = NoSession
        /\ Return(c, "connect:InvalidIdentity")
        /\ UNCHANGED <<identity, connected, lvars, avars>>
     \/ /\ control_tx = NoSession
        /\ FreeSlots # {}
        /\ \A x \in Sessions : lpc[x] # "exit"
        /\ LET s == FirstFree IN
             /\ identity' = s
             /\ connected' = FALSE
             /\ Spawn(s)
             /\ csess' = [csess EXCEPT ![c] = s]
        /\ Goto(c, "c_tx")
  /\ UNCHANGED <<done, control_tx, join>>

\* lib.rs:104-122: the AlreadyActive check; parse_or_create_identity on the
\* identity option (a string that parses, one that does not, or none); the
\* identity string is stored, the channels are created, the flag is stored
\* false and run_client is spawned.  The spawn waits for a task that is on its
\* return path: that stretch of run_client has no await, and the model takes
\* it to end before a further connection has been set up.
ConnectCheck(c) ==
  /\ cpc[c] = "c_check"
  /\ \/ /\ control_tx # NoSession
        /\ Return(c, "connect:AlreadyActive")
        /\ UNCHANGED <<identity, connected, lvars, avars>>
     \/ /\ control_tx = NoSession
        /\ Return(c, "connect:InvalidIdentity")
        /\ UNCHANGED <<identity, connected, lvars, avars>>
     \/ /\ control_tx = NoSession
        /\ FreeSlots # {}
        /\ \A x \in Sessions : lpc[x] # "exit"
        /\ LET s == FirstFree IN
             /\ identity' = s
             /\ connected' = FALSE
             /\ Spawn(s)
             /\ csess' = [csess EXCEPT ![c] = s]
        /\ Goto(c, "c_tx")
  /\ UNCHANGED <<done, control_tx, join>>

\* lib.rs:124
ConnectSetTx(c) ==
  /\ cpc[c] = "c_tx"
  /\ control_tx' = csess[c]
  /\ Goto(c, "c_join")
  /\ UNCHANGED <<csess, done, join, connected, identity, lvars>>
  /\ UNCHANGED avars

\* lib.rs:125
ConnectSetJoin(c) ==
  /\ cpc[c] = "c_join"
  /\ join' = csess[c]
  /\ Goto(c, "c_wait")
  /\ UNCHANGED <<csess, done, control_tx, connected, identity, lvars>>
  /\ UNCHANGED avars

\* lib.rs:127-131, 137-144: ready_rx.await resolves.  On success the call
\* returns; on a failure, or with the channel dropped, the flag is stored false
\* and the sender cleared, and with the channel dropped the call returns there,
\* leaving the JoinHandle in place.
ConnectReady(c) ==
  /\ cpc[c] = "c_wait"
  /\ ready[csess[c]] \in {"ok", "err", "dropped"}
  /\ CASE ready[csess[c]] = "ok" ->
            Return(c, "connect:ok") /\ UNCHANGED <<connected, control_tx>>
       [] ready[csess[c]] = "err" ->
            /\ connected' = FALSE
            /\ control_tx' = NoSession
            /\ Goto(c, "c_fail_join")
            /\ UNCHANGED csess
       [] OTHER ->
            /\ connected' = FALSE
            /\ control_tx' = NoSession
            /\ Return(c, "connect:WorkerExited")
  /\ UNCHANGED <<done, join, identity, lvars>>
  /\ UNCHANGED avars

\* lib.rs:132-135: the JoinHandle is taken and the task aborted.
ConnectFailJoin(c) ==
  /\ cpc[c] = "c_fail_join"
  /\ join' = NoSession
  /\ IF join # NoSession THEN Abort(join) ELSE UNCHANGED <<lpc, why, control_rx, ready, done>>
  /\ Return(c, "connect:Failed")
  /\ UNCHANGED <<connected, control_tx, identity, events, enq, lastDeq, deqCount,
                 drainBy>>
  /\ UNCHANGED avars

\* ---- the command queue (tokio mpsc, lib.rs:112) ----------------------------
PushCmd(s) == [kind |-> "push", by |-> "host", stamp |-> enq[s] + 1]
DiscCmd(s, c) == [kind |-> "disc", by |-> c, stamp |-> enq[s] + 1]

\* A channel with one permit more than its capacity.
HasRoom_OneMore(s) == Len(control_rx[s]) <= Capacity

\* The sender accepts a message: the receiver is alive and a permit is free.
Closed(s) == IsFinished(s)

HasRoom(s) == Len(control_rx[s]) < Capacity

\* mpsc::Sender::try_send / send once a permit is free.
Enqueue(s, cmd) ==
  /\ control_rx' = [control_rx EXCEPT ![s] = Append(@, cmd)]
  /\ enq' = [enq EXCEPT ![s] = @ + 1]

\* A receiver that hands out the newest message.
RecvCmd_Newest(q) == q[Len(q)]

\* mpsc::Receiver::recv: the oldest message.
RecvCmd(q) == Head(q)

\* A receiver that leaves the message it hands out in the queue.
RecvRest_Peek(q) == q

\* mpsc::Receiver::recv: what stays queued.
RecvRest(q) == Tail(q)

\* ---- TeamSpeakClient::disconnect (lib.rs:149-188) --------------------------
\* A disconnect that forgets the stored identity when it finds no sender.
DisconnectSend_Forgets(c) ==
  /\ cpc[c] = "d_clone"
  /\ \/ /\ control_tx = NoSession
        /\ identity' = NoSession
        /\ Return(c, "disconnect:noop")
        /\ UNCHANGED <<done, control_rx, enq>>
     \/ /\ control_tx # NoSession
        /\ Closed(control_tx)
        /\ Return(c, "disconnect:WorkerNotRunning")
        /\ UNCHANGED <<done, control_rx, enq, identity>>
     \/ /\ control_tx # NoSession
        /\ ~Closed(control_tx)
        /\ HasRoom(control_tx)
        /\ Enqueue(control_tx, DiscCmd(control_tx, c))
        /\ done' = [done EXCEPT ![c] = "pending"]
        /\ csess' = [csess EXCEPT ![c] = control_tx]
        /\ Goto(c, "d_wait")
        /\ UNCHANGED identity
  /\ UNCHANGED <<control_tx, join, connected, lpc, why, ready, events, lastDeq, deqCount,
                 drainBy>>
  /\ UNCHANGED avars

\* lib.rs:152-171: clone the sender (without one the call is a no-op success),
\* then tx.send(Disconnect{..}).await: it waits for a permit, and fails, the
\* call returning through `?`, when the receiver is gone.
DisconnectSend(c) ==
  /\ cpc[c] = "d_clone"
  /\ \/ /\ control_tx = NoSession
        /\ Return(c, "disconnect:noop")
        /\ UNCHANGED <<done, control_rx, enq>>
     \/ /\ control_tx # NoSession
        /\ Closed(control_tx)
        /\ Return(c, "disconnect:WorkerNotRunning")
        /\ UNCHANGED <<done, control_rx, enq>>
     \/ /\ control_tx # NoSession
        /\ ~Closed(control_tx)
        /\ HasRoom(control_tx)
        /\ Enqueue(control_tx, DiscCmd(control_tx, c))
        /\ done' = [done EXCEPT ![c] = "pending"]
        /\ csess' = [csess EXCEPT ![c] = control_tx]
        /\ Goto(c, "d_wait")
  /\ UNCHANGED <<hvars, lpc, why, ready, events, lastDeq, deqCount, drainBy>>
  /\ UNCHANGED avars

\* A disconnect that clears the sender on an acknowledgement without storing
\* the flag false.
DisconnectAck_KeepsFlag(c) ==
  /\ cpc[c] = "d_wait"
  /\ done[c] \in {"ok", "err", "dropped"}
  /\ IF done[c] = "dropped"
     THEN Return(c, "disconnect:Interrupted") /\ UNCHANGED <<connected, control_tx>>
     ELSE /\ control_tx' = NoSession
          /\ Goto(c, "d_take")
          /\ UNCHANGED <<csess, connected>>
  /\ UNCHANGED <<done, join, identity, lvars>>
  /\ UNCHANGED avars

\* lib.rs:173-178: done_rx.await: with the sender dropped the call returns
\* through `?`; with a result the flag is stored false and the sender cleared.
DisconnectAck(c) ==
  /\ cpc[c] = "d_wait"
  /\ done[c] \in {"ok", "err", "dropped"}
  /\ IF done[c] = "dropped"
     THEN Return(c, "disconnect:Interrupted") /\ UNCHANGED <<connected, control_tx>>
     ELSE /\ connected' = FALSE
          /\ control_tx' = NoSession
          /\ Goto(c, "d_take")
          /\ UNCHANGED csess
  /\ UNCHANGED <<done, join, identity, lvars>>
  /\ UNCHANGED avars

\* lib.rs:179: the JoinHandle is taken into a local.
DisconnectTake(c) ==
  /\ cpc[c] = "d_take"
  /\ join' = NoSession
  /\ csess' = [csess EXCEPT ![c] = join]
  /\ Goto(c, "d_join")
  /\ UNCHANGED <<done, connected, control_tx, identity, lvars>>
  /\ UNCHANGED avars

\* lib.rs:180-187: await the taken handle, if any, then return the result.
DisconnectJoin(c) ==
  /\ cpc[c] = "d_join"
  /\ csess[c] # NoSession => IsFinished(csess[c])
  /\ Return(c, IF done[c] = "ok" THEN "disconnect:ok" ELSE "disconnect:Failed")
  /\ UNCHANGED <<done, hvars, lvars>>
  /\ UNCHANGED avars

\* ---- TeamSpeakClient::push_frame (lib.rs:190-221) --------------------------
\* A pushFrame that looks at the queue before it looks at the byte length.
PushResult_RoomFirst(odd) ==
  LET h == Refreshed IN
    IF h.tx = NoSession THEN "pushFrame:NotConnected"
    ELSE IF Closed(h.tx) \/ ~HasRoom(h.tx) THEN "pushFrame:Backpressure"
    ELSE IF odd THEN "pushFrame:OddLength"
    ELSE "pushFrame:ok"

\* The result of pushFrame on the refreshed handle, for a buffer of odd or
\* even byte length.
PushResult(odd) ==
  LET h == Refreshed IN
    IF h.tx = NoSession THEN "pushFrame:NotConnected"
    ELSE IF odd THEN "pushFrame:OddLength"
    ELSE IF Closed(h.tx) \/ ~HasRoom(h.tx) THEN "pushFrame:Backpressure"
    ELSE "pushFrame:ok"

PushFrame(odd) ==
  LET h == Refreshed
      r == PushResult(odd) IN
    /\ r = "pushFrame:ok" => enq[h.tx] < MaxPush
    /\ control_tx' = h.tx
    /\ join' = h.jn
    /\ connected' = h.conn
    /\ last' = r
    /\ IF r = "pushFrame:ok" THEN Enqueue(h.tx, PushCmd(h.tx)) ELSE UNCHANGED <<control_rx, enq>>
    /\ UNCHANGED <<identity, cop, cpc, csess, done, lpc, why, ready, events, lastDeq, deqCount, drainBy>>
    /\ UNCHANGED avars

\* ---- run_client (lib.rs:257-465) -------------------------------------------
\* The loop publishes a oneshot result and is left on its return path `w`.
ToExit(s, w) ==
  /\ lpc' = [lpc EXCEPT ![s] = "exit"]
  /\ why' = [why EXCEPT ![s] = w]

\* lib.rs:293-303: Connection::build(..).connect() fails.
\* lib.rs:306-320: Encoder::new fails.
LoopSetupFail(s) ==
  /\ lpc[s] = "start"
  /\ \E w \in {"connect_error", "encoder_error"} : ToExit(s, w)
  /\ ready' = [ready EXCEPT ![s] = "err"]
  /\ UNCHANGED <<hvars, cvars, control_rx, events, enq, lastDeq, deqCount, drainBy>>
  /\ UNCHANGED avars

\* lib.rs:293-328: setup succeeds and the loop enters select!; the first tick
\* of the interval created at lib.rs:325 is due at once.
LoopSetupOk(s) ==
  /\ lpc[s] = "start"
  /\ lpc' = [lpc EXCEPT ![s] = "select"]
  /\ ticker' = [ticker EXCEPT ![s] = "due"]
  /\ UNCHANGED <<hvars, cvars, why, control_rx, ready, events, enq, lastDeq, deqCount,
                 drainBy, owed, speaker_handlers, audio, mixer, encoder, pipeline>>

\* lib.rs:330: control_rx.recv() yields the next command.
Dequeue(s) ==
  /\ control_rx' = [control_rx EXCEPT ![s] = RecvRest(@)]
  /\ lastDeq' = [lastDeq EXCEPT ![s] = RecvCmd(control_rx[s]).stamp]
  /\ deqCount' = [deqCount EXCEPT ![s] = @ + 1]

\* lib.rs:332-353: a PushFrame command is encoded and sent; the loop goes on.
LoopPushFrame(s) ==
  /\ lpc[s] = "select"
  /\ control_rx[s] # <<>>
  /\ RecvCmd(control_rx[s]).kind = "push"
  /\ Dequeue(s)
  /\ UNCHANGED <<hvars, cvars, lpc, why, ready, events, enq, drainBy>>
  /\ UNCHANGED avars

\* lib.rs:333-352 step by step: for each window of the command, in order,
\* encode_float (339); if it fails, emit error E_AUDIO_ENCODE (350); otherwise
\* send_audio (346) and, if that fails, emit error E_SEND_AUDIO (347).  The
\* for loop has no break or return: the next window follows in every case.
\* `outcomes` gives, per window, what the codec and the Session answer:
\* "ok" | "encode" (encode_float fails) | "send" (send_audio fails).
FrameOutcomes == {"ok", "encode", "send"}

FrameSteps(k, outcome) ==
  <<[op |-> "encode_float", window |-> k]>>
    \o (IF outcome = "encode"
        THEN <<[op |-> "error:E_AUDIO_ENCODE", window |-> k]>>
        ELSE <<[op |-> "send_audio", window |-> k]>>
               \o (IF outcome = "send"
                   THEN <<[op |-> "error:E_SEND_AUDIO", window |-> k]>>
                   ELSE <<>>))

RECURSIVE EncodeFrom(_, _)
EncodeFrom(outcomes, k) ==
  IF k > Len(outcomes) THEN <<>>
  ELSE FrameSteps(k, outcomes[k]) \o EncodeFrom(outcomes, k + 1)

\* A pipeline that gives up the command at the first window that fails.
EncodeAndSend_StopsAtFailure(outcomes) ==
  LET failing == {k \in 1 .. Len(outcomes) : outcomes[k] # "ok"}
      upto == IF failing = {} THEN Len(outcomes)
              ELSE CHOOSE k \in failing : \A j \in failing : k <= j
  IN EncodeFrom(SubSeq(outcomes, 1, upto), 1)

EncodeAndSend(outcomes) == EncodeFrom(outcomes, 1)

\* Per-window outcomes of a command of up to MaxWindows windows.
WindowOutcomes ==
  UNION {[1 .. n -> FrameOutcomes] : n \in 0 .. MaxWindows}

\* The PushFrame branch with the steps of its frame loop recorded: the
\* command's buffer makes Len(outcomes) windows.
LoopPushFrameSteps(s) ==
  /\ lpc[s] = "select"
  /\ control_rx[s] # <<>>
  /\ RecvCmd(control_rx[s]).kind = "push"
  /\ Dequeue(s)
  /\ \E outcomes \in WindowOutcomes :
       encoder' = [encoder EXCEPT ![s] =
                     [outcomes |-> outcomes, steps |-> EncodeAndSend(outcomes)]]
  /\ UNCHANGED <<hvars, cvars, lpc, why, ready, events, enq, drainBy>>
  /\ UNCHANGED <<ticker, owed, speaker_handlers, audio, mixer, pipeline>>

\* lib.rs:354-369: a Disconnect command; sync_con.disconnect is rejected and
\* the acknowledgement resolved with the failure.
LoopDisconnectRejected(s) ==
  /\ lpc[s] = "select"
  /\ control_rx[s] # <<>>
  /\ RecvCmd(control_rx[s]).kind = "disc"
  /\ Dequeue(s)
  /\ drainBy' = [drainBy EXCEPT ![s] = RecvCmd(control_rx[s]).by]
  /\ done' = [done EXCEPT ![RecvCmd(control_rx[s]).by] = "err"]
  /\ ToExit(s, "disconnect_error")
  /\ UNCHANGED <<hvars, cop, cpc, csess, last, ready, events, enq>>
  /\ UNCHANGED avars

\* lib.rs:354-373: a Disconnect command; sync_con.disconnect is accepted and
\* the loop enters the drain under time::timeout.
LoopDisconnectAccepted(s) ==
  /\ lpc[s] = "select"
  /\ control_rx[s] # <<>>
  /\ RecvCmd(control_rx[s]).kind = "disc"
  /\ Dequeue(s)
  /\ drainBy' = [drainBy EXCEPT ![s] = RecvCmd(control_rx[s]).by]
  /\ lpc' = [lpc EXCEPT ![s] = "drain"]
  /\ UNCHANGED <<hvars, cvars, why, ready, events, enq>>
  /\ UNCHANGED avars

\* A drain that treats the temporary-disconnect notice as the main loop does.
DrainTemporarily_Stores(s) ==
  /\ lpc[s] = "drain"
  /\ CountOf(events[s], "reconnecting") < MaxTemp
  /\ connected' = FALSE
  /\ events' = [events EXCEPT ![s] = Emit(@, "reconnecting")]
  /\ UNCHANGED <<control_tx, join, identity, cvars, lpc, why, control_rx, ready, enq,
                 lastDeq, deqCount, drainBy>>
  /\ UNCHANGED avars

\* lib.rs:376-382: a temporary-disconnect notice inside the drain.
DrainTemporarily(s) ==
  /\ lpc[s] = "drain"
  /\ CountOf(events[s], "reconnecting") < MaxTemp
  /\ events' = [events EXCEPT ![s] = Emit(@, "reconnecting")]
  /\ UNCHANGED <<hvars, cvars, lpc, why, control_rx, ready, enq, lastDeq, deqCount,
                 drainBy>>
  /\ UNCHANGED avars

\* A drain that routes an audio packet to the sender's AudioHandler.
DrainOther_Routes(s) ==
  /\ lpc[s] = "drain"
  /\ speaker_handlers' = [speaker_handlers EXCEPT ![s] = [p \in Talkers |-> 1]]
  /\ UNCHANGED <<hvars, cvars, lvars, ticker, owed, audio, mixer, encoder, pipeline>>

\* lib.rs:383: any other event inside the drain is dropped.
DrainOther(s) ==
  /\ lpc[s] = "drain"
  /\ UNCHANGED vars

\* A drain whose timeout resolves the acknowledgement with success.
DrainEnds_OkOnTimeout(s) ==
  /\ lpc[s] = "drain"
  /\ \E w \in {"client_disconnect", "drain_error", "drain_timeout"} :
       /\ ToExit(s, w)
       /\ done' = [done EXCEPT ![drainBy[s]] = IF w = "drain_error" THEN "err" ELSE "ok"]
  /\ UNCHANGED <<hvars, cop, cpc, csess, last, control_rx, ready, events, enq, lastDeq,
                 deqCount, drainBy>>
  /\ UNCHANGED avars

\* lib.rs:374-404: the drain ends: the stream closes (Ok), yields an error, or
\* the 8 s timeout elapses; the acknowledgement is resolved.
DrainEnds(s) ==
  /\ lpc[s] = "drain"
  /\ \E w \in {"client_disconnect", "drain_error", "drain_timeout"} :
       /\ ToExit(s, w)
       /\ done' = [done EXCEPT ![drainBy[s]] = IF w = "client_disconnect" THEN "ok" ELSE "err"]
  /\ UNCHANGED <<hvars, cop, cpc, csess, last, control_rx, ready, events, enq, lastDeq,
                 deqCount, drainBy>>
  /\ UNCHANGED avars

\* A handler that emits `connected` on every BookEvents item.
StreamBookEvents_AlwaysEmits(s) ==
  /\ lpc[s] = "select"
  /\ connected' = TRUE
  /\ ready' = [ready EXCEPT ![s] = IF @ = "pending" THEN "ok" ELSE @]
  /\ events' = [events EXCEPT ![s] = Emit(@, "connected")]
  /\ UNCHANGED <<control_tx, join, identity, cvars, lpc, why, control_rx, enq, lastDeq,
                 deqCount, drainBy>>
  /\ UNCHANGED avars

\* lib.rs:476-492: BookEvents: the first one flips the flag, resolves
\* readiness and emits `connected`.
StreamBookEvents(s) ==
  /\ lpc[s] = "select"
  /\ connected' = TRUE
  /\ IF ~connected
     THEN /\ ready' = [ready EXCEPT ![s] = IF @ = "pending" THEN "ok" ELSE @]
          /\ events' = [events EXCEPT ![s] = Emit(@, "connected")]
     ELSE UNCHANGED <<ready, events>>
  /\ UNCHANGED <<control_tx, join, identity, cvars, lpc, why, control_rx, enq, lastDeq,
                 deqCount, drainBy>>
  /\ UNCHANGED avars

\* lib.rs:496-503: DisconnectedTemporarily in the main loop.
StreamTemporarily(s) ==
  /\ lpc[s] = "select"
  /\ CountOf(events[s], "reconnecting") < MaxTemp
  /\ connected' = FALSE
  /\ events' = [events EXCEPT ![s] = Emit(@, "reconnecting")]
  /\ UNCHANGED <<control_tx, join, identity, cvars, lpc, why, control_rx, ready, enq,
                 lastDeq, deqCount, drainBy>>
  /\ UNCHANGED avars

\* lib.rs:431-434, 444-447: the stream yields an error or ends; a pending
\* readiness is resolved with the failure.
StreamFatal(s) ==
  /\ lpc[s] = "select"
  /\ \E w \in {"stream_error", "eof"} : ToExit(s, w)
  /\ ready' = [ready EXCEPT ![s] = IF @ = "pending" THEN "err" ELSE @]
  /\ UNCHANGED <<hvars, cvars, control_rx, events, enq, lastDeq, deqCount, drainBy>>
  /\ UNCHANGED avars

\* An end-of-input path that leaves the flag alone.
StoresFalse_NotEof(w) == w \notin {"connect_error", "encoder_error", "eof"}

\* A drain timeout that reports the error and no `disconnected`.
ExitEvents_SilentTimeout(w) ==
  CASE w = "connect_error" -> <<"error:E_CONNECT">>
    [] w = "encoder_error" -> <<"error:E_AUDIO_ENCODE">>
    [] w = "disconnect_error" -> <<"error:E_DISCONNECT", "disconnected:disconnect_error">>
    [] w = "client_disconnect" -> <<"disconnected:client_disconnect">>
    [] w = "drain_error" -> <<"error:E_DISCONNECT", "disconnected:client_disconnect">>
    [] w = "drain_timeout" -> <<"error:E_DISCONNECT_TIMEOUT">>
    [] w = "stream_error" -> <<"error:E_STREAM", "disconnected:stream_error">>
    [] w = "eof" -> <<"disconnected:eof">>

\* An end-of-input path that reports an error event like the stream-error path.
ExitEvents_EofError(w) ==
  CASE w = "connect_error" -> <<"error:E_CONNECT">>
    [] w = "encoder_error" -> <<"error:E_AUDIO_ENCODE">>
    [] w = "disconnect_error" -> <<"error:E_DISCONNECT", "disconnected:disconnect_error">>
    [] w = "client_disconnect" -> <<"disconnected:client_disconnect">>
    [] w = "drain_error" -> <<"error:E_DISCONNECT", "disconnected:client_disconnect">>
    [] w = "drain_timeout" -> <<"error:E_DISCONNECT_TIMEOUT", "disconnected:client_disconnect">>
    [] w = "stream_error" -> <<"error:E_STREAM", "disconnected:stream_error">>
    [] w = "eof" -> <<"error:E_STREAM", "disconnected:eof">>

\* A stream-error path that reports the error after `disconnected`.
ExitEvents_ErrorLast(w) ==
  CASE w = "connect_error" -> <<"error:E_CONNECT">>
    [] w = "encoder_error" -> <<"error:E_AUDIO_ENCODE">>
    [] w = "disconnect_error" -> <<"error:E_DISCONNECT", "disconnected:disconnect_error">>
    [] w = "client_disconnect" -> <<"disconnected:client_disconnect">>
    [] w = "drain_error" -> <<"error:E_DISCONNECT", "disconnected:client_disconnect">>
    [] w = "drain_timeout" -> <<"error:E_DISCONNECT_TIMEOUT", "disconnected:client_disconnect">>
    [] w = "stream_error" -> <<"disconnected:stream_error", "error:E_STREAM">>
    [] w = "eof" -> <<"disconnected:eof">>

\* What each return path stores and emits before run_client returns:
\*   lib.rs:300-301, 317-318 (setup), 361-368 (rejected), 391-412 (drain),
\*   435-442 (stream error), 448-454 (eof).
StoresFalse(w) == w \notin {"connect_error", "encoder_error"}

ExitEvents(w) ==
  CASE w = "connect_error" -> <<"error:E_CONNECT">>
    [] w = "encoder_error" -> <<"error:E_AUDIO_ENCODE">>
    [] w = "disconnect_error" -> <<"error:E_DISCONNECT", "disconnected:disconnect_error">>
    [] w = "client_disconnect" -> <<"disconnected:client_disconnect">>
    [] w = "drain_error" -> <<"error:E_DISCONNECT", "disconnected:client_disconnect">>
    [] w = "drain_timeout" -> <<"error:E_DISCONNECT_TIMEOUT", "disconnected:client_disconnect">>
    [] w = "stream_error" -> <<"error:E_STREAM", "disconnected:stream_error">>
    [] w = "eof" -> <<"disconnected:eof">>

\* The rest of the handler that ends the loop: the flag is stored false, the
\* events are emitted and run_client returns, dropping its locals.
LoopExit(s) ==
  /\ lpc[s] = "exit"
  /\ connected' = IF StoresFalse(why[s]) THEN FALSE ELSE connected
  /\ events' = [events EXCEPT ![s] = @ \o ExitEvents(why[s])]
  /\ lpc' = [lpc EXCEPT ![s] = "finished"]
  /\ control_rx' = [control_rx EXCEPT ![s] = <<>>]
  /\ ready' = [ready EXCEPT ![s] = ReadyAfterDrop(s)]
  /\ done' = DoneAfterDrop(s)
  /\ UNCHANGED <<control_tx, join, identity, cop, cpc, csess, last, why, enq, lastDeq,
                 deqCount, drainBy>>
  /\ UNCHANGED avars


\* ---- the timer and the Speaker Mixer (lib.rs:325-326, 416-418, 538-601) -----
\* The interval's next deadline passes.  MissedTickBehavior::Skip: a deadline
\* that passes while one is already due is skipped.
TimerElapses(s) ==
  /\ lpc[s] \in {"select", "drain"}
  /\ ticker' = [ticker EXCEPT ![s] = "due"]
  /\ owed' = [owed EXCEPT ![s] = IF connected /\ @ = "no" THEN lpc[s] ELSE @]
  /\ UNCHANGED <<hvars, cvars, lvars, speaker_handlers, audio, mixer, encoder, pipeline>>

\* AudioHandler::fill_buffer: one buffered frame, if any, is played out.
FillBuffer(n) == IF n > 0 THEN n - 1 ELSE 0

\* entry(from).or_default() followed by AudioHandler::handle_packet: the
\* packet is buffered (ok), or refused (a decode error) and the handler stays
\* as it is, a new one empty.
HandlePacket(n, ok) ==
  LET h == IF n = Absent THEN 0 ELSE n IN
    IF ok /\ h < MaxBuf THEN h + 1 ELSE h

\* emit_audio_frames (lib.rs:567-601): the audio events of one tick: one
\* audioSpeaker per participant whose frame has audio, then audioMixed.
Speaking(sp) == {p \in Talkers : sp[p] > 0}

RECURSIVE SpeakerEvents(_)
SpeakerEvents(ps) ==
  IF ps = {} THEN <<>>
  ELSE LET p == CHOOSE x \in ps : TRUE IN <<"audioSpeaker:" \o p>> \o SpeakerEvents(ps \ {p})

\* A mixer that emits audioMixed only when some participant has audio.
EmitAudioFrames_WhenSpeaking(sp) ==
  IF Speaking(sp) = {} THEN <<>> ELSE SpeakerEvents(Speaking(sp)) \o <<"audioMixed">>

EmitAudioFrames(sp) == SpeakerEvents(Speaking(sp)) \o <<"audioMixed">>

\* emit_audio_frames: every handler is drained; the ones whose queues are
\* empty after the drain are removed after the audioMixed event.
AfterTick(sp) ==
  [p \in Talkers |->
     IF sp[p] = Absent \/ FillBuffer(sp[p]) = 0 THEN Absent ELSE FillBuffer(sp[p])]

\* emit_audio_frames step by step (lib.rs:571-600): the iteration over the
\* handlers (574-593) calls fill_buffer on each (577), notes the ones whose
\* queues are empty after it (579-581) and emits audioSpeaker for a frame with
\* audio (584-592); then audioMixed is emitted (596) and the noted handlers are
\* removed (598-600).  HashMap iteration takes the handlers in some order.
Present(sp) == {p \in Talkers : sp[p] # Absent}

ToRemove(sp) == {p \in Present(sp) : FillBuffer(sp[p]) = 0}

RECURSIVE IterSteps(_, _)
IterSteps(sp, ps) ==
  IF ps = {} THEN <<>>
  ELSE LET p == CHOOSE x \in ps : TRUE IN
         <<[op |-> "fill_buffer", id |-> p]>>
           \o (IF sp[p] > 0 THEN <<[op |-> "audioSpeaker", id |-> p]>> ELSE <<>>)
           \o IterSteps(sp, ps \ {p})

RECURSIVE RemoveSteps(_)
RemoveSteps(ps) ==
  IF ps = {} THEN <<>>
  ELSE LET p == CHOOSE x \in ps : TRUE IN
         <<[op |-> "remove", id |-> p]>> \o RemoveSteps(ps \ {p})

\* A mixer that removes the noted handlers before it emits audioMixed.
emit_audio_frames_RemovesFirst(sp) ==
  IterSteps(sp, Present(sp)) \o RemoveSteps(ToRemove(sp)) \o <<[op |-> "audioMixed", id |-> "none"]>>

emit_audio_frames(sp) ==
  IterSteps(sp, Present(sp)) \o <<[op |-> "audioMixed", id |-> "none"]>> \o RemoveSteps(ToRemove(sp))

\* lib.rs:416-418: the ticker branch of select!.
LoopTick(s) ==
  /\ lpc[s] = "select"
  /\ ticker[s] = "due"
  /\ ticker' = [ticker EXCEPT ![s] = "idle"]
  /\ owed' = [owed EXCEPT ![s] = "no"]
  /\ audio' = [audio EXCEPT ![s] = EmitAudioFrames(speaker_handlers[s])]
  /\ speaker_handlers' = [speaker_handlers EXCEPT ![s] = AfterTick(@)]
  /\ UNCHANGED <<hvars, cvars, lvars, mixer, encoder, pipeline>>

\* The same branch with the steps of its emit_audio_frames call recorded.
LoopTickSteps(s) ==
  /\ lpc[s] = "select"
  /\ ticker[s] = "due"
  /\ ticker' = [ticker EXCEPT ![s] = "idle"]
  /\ owed' = [owed EXCEPT ![s] = "no"]
  /\ audio' = [audio EXCEPT ![s] = EmitAudioFrames(speaker_handlers[s])]
  /\ speaker_handlers' = [speaker_handlers EXCEPT ![s] = AfterTick(@)]
  /\ mixer' = [mixer EXCEPT ![s] = emit_audio_frames(speaker_handlers[s])]
  /\ UNCHANGED <<hvars, cvars, lvars, encoder, pipeline>>

\* lib.rs:493-495, 538-565: an audio packet in the main loop is routed to the
\* sender's AudioHandler.
StreamAudio(s) ==
  /\ lpc[s] = "select"
  /\ \E p \in Participants : \E ok \in BOOLEAN :
       speaker_handlers' = [speaker_handlers EXCEPT ![s][p] = HandlePacket(@, ok)]
  /\ UNCHANGED <<hvars, cvars, lvars, ticker, owed, audio, mixer, encoder, pipeline>>

\* The same with every participant of Talkers sending audio.
StreamAudioTalkers(s) ==
  /\ lpc[s] = "select"
  /\ \E p \in Talkers : \E ok \in BOOLEAN :
       speaker_handlers' = [speaker_handlers EXCEPT ![s][p] = HandlePacket(@, ok)]
  /\ UNCHANGED <<hvars, cvars, lvars, ticker, owed, audio, mixer, encoder, pipeline>>

AudioStep ==
  \/ \E s \in Sessions : TimerElapses(s)
  \/ \E s \in Sessions : LoopTick(s)
  \/ \E s \in Sessions : StreamAudio(s)

\* ---- the system --------------------------------------------------------------
HandleStep(C) ==
  \/ \E c \in C : \E op \in {"connect", "disconnect"} : Begin(c, op)
  \/ \E c \in C : RefreshTx(c)
  \/ \E c \in C : RefreshJoin(c)
  \/ \E c \in C : ConnectCheck(c)
  \/ \E c \in C : ConnectSetTx(c)
  \/ \E c \in C : ConnectSetJoin(c)
  \/ \E c \in C : ConnectReady(c)
  \/ \E c \in C : ConnectFailJoin(c)
  \/ \E c \in C : DisconnectSend(c)
  \/ \E c \in C : DisconnectAck(c)
  \/ \E c \in C : DisconnectTake(c)
  \/ \E c \in C : DisconnectJoin(c)

HostStep ==
  \E odd \in BOOLEAN : PushFrame(odd)

LoopStep ==
  \/ \E s \in Sessions : LoopSetupFail(s)
  \/ \E s \in Sessions : LoopSetupOk(s)
  \/ \E s \in Sessions : LoopPushFrame(s)
  \/ \E s \in Sessions : LoopDisconnectRejected(s)
  \/ \E s \in Sessions : LoopDisconnectAccepted(s)
  \/ \E s \in Sessions : DrainTemporarily(s)
  \/ \E s \in Sessions : DrainOther(s)
  \/ \E s \in Sessions : DrainEnds(s)
  \/ \E s \in Sessions : StreamBookEvents(s)
  \/ \E s \in Sessions : StreamTemporarily(s)
  \/ \E s \in Sessions : StreamFatal(s)
  \/ \E s \in Sessions : LoopExit(s)

\* The host as one thread of control: one connect or disconnect call at a
\* time, pushFrame at any moment (also while such a call is pending), and the
\* loop with its command queue and its session events.  The timer and the
\* audio packets are left to SpecAudio: they touch none of the variables the
\* other steps read.
Next == HandleStep(Host) \/ HostStep \/ LoopStep

Spec == Init /\ [][Next]_vars

\* The same host and loop together with the timer and the Speaker Mixer.
NextAudio == HandleStep(Host) \/ HostStep \/ LoopStep \/ AudioStep

SpecAudio == Init /\ [][NextAudio]_vars

\* The host and the loop, with the frame loop of every PushFrame command
\* recorded.
NextEncode ==
  \/ HandleStep(Host)
  \/ HostStep
  \/ \E s \in Sessions : LoopSetupFail(s)
  \/ \E s \in Sessions : LoopSetupOk(s)
  \/ \E s \in Sessions : LoopPushFrameSteps(s)
  \/ \E s \in Sessions : LoopDisconnectRejected(s)
  \/ \E s \in Sessions : LoopDisconnectAccepted(s)
  \/ \E s \in Sessions : DrainTemporarily(s)
  \/ \E s \in Sessions : DrainOther(s)
  \/ \E s \in Sessions : DrainEnds(s)
  \/ \E s \in Sessions : StreamBookEvents(s)
  \/ \E s \in Sessions : StreamTemporarily(s)
  \/ \E s \in Sessions : StreamFatal(s)
  \/ \E s \in Sessions : LoopExit(s)

SpecEncode == Init /\ [][NextEncode]_vars

\* A host that connects (and neither pushes frames nor disconnects), the loop
\* with its session events, and the timer and the Speaker Mixer fed by every
\* participant of Talkers.
NextMixer ==
  \/ \E c \in Host : Begin(c, "connect")
  \/ \E c \in Host : RefreshTx(c)
  \/ \E c \in Host : RefreshJoin(c)
  \/ \E c \in Host : ConnectCheck(c)
  \/ \E c \in Host : ConnectSetTx(c)
  \/ \E c \in Host : ConnectSetJoin(c)
  \/ \E c \in Host : ConnectReady(c)
  \/ \E c \in Host : ConnectFailJoin(c)
  \/ \E s \in Sessions : LoopSetupFail(s)
  \/ \E s \in Sessions : LoopSetupOk(s)
  \/ \E s \in Sessions : StreamBookEvents(s)
  \/ \E s \in Sessions : StreamTemporarily(s)
  \/ \E s \in Sessions : StreamFatal(s)
  \/ \E s \in Sessions : LoopExit(s)
  \/ \E s \in Sessions : TimerElapses(s)
  \/ \E s \in Sessions : LoopTickSteps(s)
  \/ \E s \in Sessions : StreamAudioTalkers(s)

SpecMixer == Init /\ [][NextMixer]_vars

\* Two callers of connect at once on a fresh handle: each call is a task of
\* its own on the runtime, so the steps of the two calls interleave freely.
\* A call is started only while no loop has been spawned yet: each caller
\* makes at most one call, and both calls are under way before either spawns.
BeginFirst(c) ==
  /\ \A s \in Sessions : lpc[s] = "unspawned"
  /\ Begin(c, "connect")

NextRace ==
  \/ \E c \in Callers : BeginFirst(c)
  \/ \E c \in Callers : ConnectCheck(c)
  \/ \E c \in Callers : ConnectSetTx(c)
  \/ \E c \in Callers : ConnectSetJoin(c)
  \/ \E c \in Callers : ConnectReady(c)
  \/ \E c \in Callers : ConnectFailJoin(c)
  \/ \E s \in Sessions : LoopSetupFail(s)
  \/ \E s \in Sessions : LoopSetupOk(s)
  \/ \E s \in Sessions : StreamBookEvents(s)
  \/ \E s \in Sessions : StreamTemporarily(s)
  \/ \E s \in Sessions : StreamFatal(s)
  \/ \E s \in Sessions : LoopExit(s)

SpecRace == Init /\ [][NextRace]_vars

\* ---- progress ---------------------------------------------------------------
\* A connect call on the fresh handle, issued while no other call is under way.
BeginAlone(c) ==
  /\ \A d \in Callers : cop[d] = "none"
  /\ BeginFirst(c)

\* A connect call issued while another caller's disconnect call has sent its
\* command and not returned yet, and before a loop was spawned in the second
\* slot.
BeginDuring(c) ==
  /\ \E d \in Callers \ {c} : cop[d] = "disconnect" /\ cpc[d] \in {"d_wait", "d_take"}
  /\ lpc[SlotOrder[2]] = "unspawned"
  /\ Begin(c, "connect")

\* The steps of a call that is under way: none of them waits for the host.
CallProgress(c) ==
  \/ RefreshTx(c)
  \/ RefreshJoin(c)
  \/ ConnectCheck(c)
  \/ ConnectSetTx(c)
  \/ ConnectSetJoin(c)
  \/ ConnectReady(c)
  \/ ConnectFailJoin(c)
  \/ DisconnectSend(c)
  \/ DisconnectAck(c)
  \/ DisconnectTake(c)
  \/ DisconnectJoin(c)

\* The steps of a loop task that need no session event: its set-up, a queued
\* Disconnect command taken by select!, the end of the drain (at the latest by
\* its 8 s timeout, lib.rs:373) and the return path.
LoopProgress(s) ==
  \/ LoopSetupFail(s)
  \/ LoopSetupOk(s)
  \/ LoopDisconnectRejected(s)
  \/ LoopDisconnectAccepted(s)
  \/ DrainEnds(s)
  \/ LoopExit(s)

\* Caller "a" connects on the fresh handle and disconnects; caller "b" calls
\* connect while a disconnect of "a" is under way.
NextLive ==
  \/ \E c \in Host : BeginAlone(c)
  \/ \E c \in Host : Begin(c, "disconnect")
  \/ \E c \in Callers \ Host : BeginDuring(c)
  \/ \E c \in Callers : CallProgress(c)
  \/ \E s \in Sessions : LoopProgress(s)
  \/ \E s \in Sessions : StreamBookEvents(s)
  \/ \E s \in Sessions : StreamFatal(s)

\* The runtime polls every task that can go on, and the timer fires.
Fairness ==
  /\ \A c \in Callers : WF_vars(CallProgress(c))
  /\ \A s \in Sessions : WF_vars(LoopProgress(s))

SpecLive == Init /\ [][NextLive]_vars /\ Fairness

\* Caller "a" connects on the fresh handle, starting while no other call is
\* under way; both callers disconnect at any moment, at once or one after the
\* other, also while the connect call is under way.
NextDisconnects ==
  \/ \E c \in Host : BeginAlone(c)
  \/ \E c \in Callers : Begin(c, "disconnect")
  \/ \E c \in Callers : CallProgress(c)
  \/ \E s \in Sessions : LoopProgress(s)
  \/ \E s \in Sessions : StreamBookEvents(s)
  \/ \E s \in Sessions : StreamTemporarily(s)
  \/ \E s \in Sessions : DrainTemporarily(s)
  \/ \E s \in Sessions : StreamFatal(s)

SpecDisconnects == Init /\ [][NextDisconnects]_vars /\ Fairness

\* The same callers and loop together with the timer and the Speaker Mixer.
NextOverlap == NextDisconnects \/ AudioStep

SpecOverlap == Init /\ [][NextOverlap]_vars

\* ---- a task that panics ------------------------------------------------------
\* run_client panics (an expect() on a poisoned mutex, lib.rs:653-656, or a
\* panic inside the session library): tokio ends the task where it stands.
\* Its locals are dropped as by an abort; nothing is stored or emitted.
LoopPanics(s) ==
  /\ Abortable(s)
  /\ lpc' = [lpc EXCEPT ![s] = "finished"]
  /\ why' = [why EXCEPT ![s] = "panicked"]
  /\ control_rx' = [control_rx EXCEPT ![s] = <<>>]
  /\ ready' = [ready EXCEPT ![s] = ReadyAfterDrop(s)]
  /\ done' = DoneAfterDrop(s)
  /\ UNCHANGED <<hvars, cop, cpc, csess, last, events, enq, lastDeq, deqCount, drainBy>>
  /\ UNCHANGED avars

CrashStep == \E s \in Sessions : LoopPanics(s)

\* The host and the loop, with loop tasks that may panic.
NextCrash == HandleStep(Host) \/ HostStep \/ LoopStep \/ CrashStep

SpecCrash == Init /\ [][NextCrash]_vars

\* ---- the frame pipeline (lib.rs:520-536) -------------------------------------
\* Sample buffers of up to MaxSamples samples.
RECURSIVE SeqsUpTo(_)
SeqsUpTo(n) ==
  IF n = 0 THEN {<<>>}
  ELSE LET shorter == SeqsUpTo(n - 1) IN
         shorter \cup {Append(q, v) : q \in {x \in shorter : Len(x) = n - 1}, v \in SampleValues}

SampleBuffers == SeqsUpTo(MaxSamples)

Min(a, b) == IF a < b THEN a ELSE b

\* A frame whose tail repeats the last sample instead of being zero.
FrameAt_Unpadded(samples, index, end) ==
  [i \in 1 .. FrameSamples |-> IF i <= end - index THEN samples[index + i] ELSE samples[end]]

\* lib.rs:528-531: a zeroed frame with samples[index..end) copied to its start
\* (positions are 1-based here).
FrameAt(samples, index, end) ==
  [i \in 1 .. FrameSamples |-> IF i <= end - index THEN samples[index + i] ELSE 0]

\* lib.rs:527-534: the while loop from `index` on.
RECURSIVE FramesFrom(_, _)
FramesFrom(samples, index) ==
  IF index < Len(samples)
  THEN LET end == Min(index + FrameSamples, Len(samples)) IN
         <<FrameAt(samples, index, end)>> \o FramesFrom(samples, end)
  ELSE <<>>

\* to_frames (lib.rs:520-536)
to_frames(samples) == IF samples = <<>> THEN <<>> ELSE FramesFrom(samples, 0)

InitFrames ==
  /\ InitHandle
  /\ \E b \in SampleBuffers : pipeline = [samples |-> b, frames |-> <<>>, applied |-> FALSE]

\* lib.rs:333: the PushFrame branch calls to_frames on the command's samples.
ApplyToFrames ==
  /\ ~pipeline.applied
  /\ pipeline' = [pipeline EXCEPT !.frames = to_frames(pipeline.samples), !.applied = TRUE]
  /\ UNCHANGED <<hvars, cvars, lvars, ticker, owed, speaker_handlers, audio, mixer, encoder>>

NextFrames == ApplyToFrames

SpecFrames == InitFrames /\ [][NextFrames]_vars

\* ---- properties --------------------------------------------------------------
\* connect() returned success for session s: its readiness was resolved with
\* Ok and the connect call that spawned it is over.
ConnectReturnedOk(s) ==
  /\ ready[s] = "ok"
  /\ \A c \in Callers : ~(cop[c] = "connect" /\ csess[c] = s)

HasDisconnected(s) == CountIn(events[s], Disconnected) > 0

LastEvent(s) == IF events[s] = <<>> THEN "none" ELSE events[s][Len(events[s])]

C1_WhileSelecting ==
  \A s \in Sessions :
    (ConnectReturnedOk(s) /\ lpc[s] = "select") =>
      (isConnected <=> LastEvent(s) = "connected")

C1_FrozenInDrain ==
  \A s \in Sessions :
    (lpc[s] = "drain" /\ lpc'[s] = "drain") => connected' = connected

NoOtherLoop(s) == \A x \in Sessions \ {s} : lpc[x] \in {"unspawned", "finished"}

\* C2: on every path on which the loop emits `disconnected` the liveness flag
\* is false when the event is emitted, and it stays false for that session as
\* long as no new connect() has spawned a new loop.
C2_FalseAtEmission ==
  \A s \in Sessions :
    CountIn(events'[s], Disconnected) > CountIn(events[s], Disconnected) => ~connected'

C2_StaysFalse ==
  \A s \in Sessions : (HasDisconnected(s) /\ NoOtherLoop(s)) => ~isConnected

C3_DrainTicksAnswered ==
  \A s \in Sessions : lpc[s] \in {"exit", "finished"} => owed[s] # "drain"

\* C3, amended: every tick the main select! loop handles emits exactly one
\* audioMixed event, as the last audio event of that tick, also when no
\* participant has audio; inside the disconnect drain the ticker is not polled:
\* no audio event is emitted and a due tick stays due.
C3_TickEmitsOneMixed ==
  \A s \in Sessions :
    (lpc[s] = "select" /\ ticker[s] = "due" /\ ticker'[s] = "idle") =>
      /\ CountOf(audio'[s], "audioMixed") = 1
      /\ audio'[s][Len(audio'[s])] = "audioMixed"
      /\ (Speaking(speaker_handlers[s]) = {} => audio'[s] = <<"audioMixed">>)

C3_NoTickInDrain ==
  \A s \in Sessions :
    lpc[s] = "drain" =>
      /\ audio'[s] = audio[s]
      /\ speaker_handlers'[s] = speaker_handlers[s]
      /\ (ticker[s] = "due" => ticker'[s] = "due")

C3_MixedPerHandledTick == [][C3_TickEmitsOneMixed /\ C3_NoTickInDrain]_vars

\* A silent tick was answered by audioMixed alone in the main loop, and a later
\* tick elapsed inside the drain with the flag true.
C3_Witness ==
  \E s \in Sessions :
    /\ lpc[s] = "drain"
    /\ isConnected
    /\ owed[s] = "drain"
    /\ audio[s] = <<"audioMixed">>

\* C4 as stated: when a disconnect() call that found a command-sender returns,
\* with success or with any failure, the handle is cleared: no sender, no
\* JoinHandle, flag false.
C4_Returns(c) ==
  /\ cop[c] = "disconnect"
  /\ cop'[c] = "none"
  /\ last' # "disconnect:noop"

C4_ClearedOnReturn ==
  [][\A c \in Callers :
       C4_Returns(c) =>
         (control_tx' = NoSession /\ join' = NoSession /\ ~connected')]_vars

\* C5 as stated: the handle's command-sender and JoinHandle are both present
\* or both absent in every state.
C5_BothOrNeither == (control_tx = NoSession) <=> (join = NoSession)

\* The step leaves slot s to the task it held (the slot is not recycled).
SameTask(s) == ~(lpc[s] = "finished" /\ lpc'[s] # "finished")

\* A loop task that ended by returning from run_client (not by an abort).
Returned(s) == lpc[s] = "finished" /\ why[s] # "aborted"

\* C6 as stated: every loop task that has ended on a failure path (or any
\* other return path) emitted a `disconnected` event before it ended.
C6_EveryExitDisconnected ==
  \A s \in Sessions : Returned(s) => HasDisconnected(s)

\* The loop of session s has dequeued a Disconnect command.
DisconnectDequeued(s) == drainBy[s] # "none"

\* C7: once the loop has dequeued a Disconnect command it is terminal in every
\* outcome: the loop dequeues no further command and handles no further tick;
\* when it returns it stores the flag false and has emitted exactly one
\* `disconnected` event; and the command's acknowledgement is resolved once,
\* before the loop is on its return path, and not changed afterwards.
C7_NoFurtherWork ==
  \A s \in Sessions :
    (DisconnectDequeued(s) /\ SameTask(s)) =>
      /\ deqCount'[s] = deqCount[s]
      /\ lastDeq'[s] = lastDeq[s]
      /\ audio'[s] = audio[s]
      /\ (ticker[s] = "due" => ticker'[s] = "due")
      /\ lpc'[s] \in {"drain", "exit", "finished"}

C7_ReturnStoresAndEmits ==
  \A s \in Sessions :
    (DisconnectDequeued(s) /\ lpc[s] = "exit" /\ lpc'[s] = "finished") =>
      /\ ~connected'
      /\ CountIn(events'[s], Disconnected) = 1

C7_AckOnce ==
  \A s \in Sessions :
    DisconnectDequeued(s) =>
      /\ lpc[s] = "drain" => done[drainBy[s]] = "pending"
      /\ lpc[s] = "exit" => done[drainBy[s]] \in {"ok", "err"}
      /\ (lpc[s] = "exit" /\ lpc'[s] = "finished") => done'[drainBy[s]] = done[drainBy[s]]

C7_OneDisconnected ==
  \A s \in Sessions :
    (DisconnectDequeued(s) /\ lpc[s] = "finished") => CountIn(events[s], Disconnected) = 1

C7_DisconnectTerminal ==
  /\ []C7_OneDisconnected
  /\ [][C7_NoFurtherWork /\ C7_ReturnStoresAndEmits /\ C7_AckOnce]_vars

\* The loop has returned after a Disconnect command while a command queued
\* behind it was never dequeued and a tick was due.
C7_Witness ==
  \E s \in Sessions :
    /\ DisconnectDequeued(s)
    /\ lpc[s] = "finished"
    /\ enq[s] > deqCount[s]
    /\ ticker[s] = "due"
    /\ CountOf(events[s], "connected") > 0

\* C8 as stated: every command whose enqueue succeeded has been dequeued by
\* the time the loop task has ended.
C8_AllConsumed ==
  \A s \in Sessions : lpc[s] = "finished" => deqCount[s] = enq[s]

\* The stamps of the commands in a queue.
Stamps(q) == {q[i].stamp : i \in 1 .. Len(q)}

\* C8, amended: while the loop task lives, every command whose enqueue
\* succeeded is either still queued, once, or was dequeued, once; the commands
\* still queued when the task ends (behind a Disconnect command, or at a fatal
\* stream event) are dropped with the receiver and never processed, and a
\* Disconnect command dropped this way leaves its acknowledgement dropped.
C8_QueuedOrDequeuedOnce ==
  \A s \in Sessions :
    /\ deqCount[s] <= enq[s]
    /\ lpc[s] # "finished" =>
         /\ deqCount[s] + Len(control_rx[s]) = enq[s]
         /\ Stamps(control_rx[s]) = (deqCount[s] + 1) .. enq[s]
    /\ lpc[s] = "finished" => control_rx[s] = <<>>
    /\ \A c \in Callers : c \in QueuedDisc(s) => done[c] = "pending"

C8_DroppedAtEnd ==
  \A s \in Sessions :
    (lpc[s] = "exit" /\ lpc'[s] = "finished") =>
      /\ deqCount'[s] = deqCount[s]
      /\ \A c \in QueuedDisc(s) : done'[c] = "dropped"

C8_ConsumedOnceOrDropped == []C8_QueuedOrDequeuedOnce /\ [][C8_DroppedAtEnd]_vars

\* Some commands were processed and the task ended with others still queued,
\* a Disconnect command among them.
C8_Witness ==
  \E s \in Sessions :
    /\ lpc[s] = "finished"
    /\ 0 < deqCount[s]
    /\ deqCount[s] < enq[s]
    /\ \E c \in Callers : done[c] = "dropped"

\* C9: the loop processes commands in the order of their enqueueing and none
\* twice, however ticks and session events interleave: the k-th command the
\* loop dequeues is the k-th command that was enqueued.
C9_KthIsKth ==
  \A s \in Sessions : lastDeq[s] = deqCount[s]

C9_OneAtATime ==
  \A s \in Sessions :
    (SameTask(s) /\ deqCount'[s] # deqCount[s]) =>
      /\ deqCount'[s] = deqCount[s] + 1
      /\ lastDeq'[s] = lastDeq[s] + 1
      /\ control_rx[s] # <<>>
      /\ lastDeq'[s] = control_rx[s][1].stamp

C9_FifoOrder == []C9_KthIsKth /\ [][C9_OneAtATime]_vars

\* Three commands were processed, with a tick handled and a session event
\* emitted in between.
C9_Witness ==
  \E s \in Sessions :
    /\ deqCount[s] >= 3
    /\ audio[s] # <<>>
    /\ CountOf(events[s], "reconnecting") > 0

\* A pushFrame call with an even-length buffer.
PushEven == PushFrame(FALSE)

\* C10 as stated: a pushFrame call (even-length buffer) on a handle whose
\* sender's queue holds its capacity, or whose receiver is closed, fails with
\* the backpressure error and leaves the queue as it is.
C10_BackpressureWhenFullOrClosed ==
  [][(/\ PushEven
      /\ control_tx # NoSession
      /\ (Closed(control_tx) \/ ~HasRoom(control_tx)))
       => (last' = "pushFrame:Backpressure" /\ control_rx' = control_rx)]_vars

\* C10, amended: no queue ever holds more than Capacity commands, and a
\* pushFrame call with an even-length buffer on a handle that still has a
\* sender after refresh_worker_state fails with the backpressure error, the
\* queue unchanged, when that queue is full or its receiver closed.  (With the
\* task finished and its JoinHandle in place, refresh_worker_state clears the
\* sender and the call fails with "Not connected" instead.)
C10_WithinCapacity ==
  \A s \in Sessions : Len(control_rx[s]) <= Capacity

C10_BackpressureAfterRefresh ==
  (/\ PushEven
   /\ Refreshed.tx # NoSession
   /\ (Closed(Refreshed.tx) \/ ~HasRoom(Refreshed.tx)))
    => (last' = "pushFrame:Backpressure" /\ control_rx' = control_rx)

C10_BoundedNonBlocking == []C10_WithinCapacity /\ [][C10_BackpressureAfterRefresh]_vars

\* pushFrame has just failed with the backpressure error on a full queue.
C10_Witness ==
  /\ last = "pushFrame:Backpressure"
  /\ control_tx # NoSession
  /\ Len(control_rx[control_tx]) = Capacity

\* The napi Status of a call's error result (lib.rs:105, 109, 135, 140, 171,
\* 175, 186, 200, 205, 216); "Ok" for a success.
StatusOf(r) ==
  CASE r \in {"connect:AlreadyActive", "connect:InvalidIdentity",
              "pushFrame:NotConnected", "pushFrame:OddLength"} -> "InvalidArg"
    [] r \in {"connect:Failed", "connect:WorkerExited", "disconnect:WorkerNotRunning",
              "disconnect:Interrupted", "disconnect:Failed",
              "pushFrame:Backpressure"} -> "GenericFailure"
    [] OTHER -> "Ok"

\* A pushFrame call with a buffer of odd byte length.
PushOdd == PushFrame(TRUE)

\* C11: for a buffer of odd length pushFrame fails with an argument error
\* (InvalidArg) and enqueues nothing, whether or not the handle has a sender and
\* whatever the fill level of the queue.
C11_OddStep ==
  PushOdd =>
    /\ StatusOf(last') = "InvalidArg"
    /\ control_rx' = control_rx
    /\ enq' = enq

C11_OddIsArgumentError == [][C11_OddStep]_vars

\* An odd-length pushFrame was refused with the length error while the queue
\* of the handle's sender was full.
C11_Witness ==
  /\ last = "pushFrame:OddLength"
  /\ control_tx # NoSession
  /\ ~Closed(control_tx)
  /\ Len(control_rx[control_tx]) = Capacity

\* The handle holds a sender and the loop task its JoinHandle names, if any,
\* has not finished.
ActiveSender == control_tx # NoSession /\ (join # NoSession => ~IsFinished(join))

\* C12: connect() on a handle that holds a sender for a running loop fails with
\* AlreadyActive and changes nothing: its reconciliation leaves the handle
\* alone, and the step that refuses leaves sender, JoinHandle, flag, identity
\* string, every loop and every queue as they are.
C12_BeginLeavesHandle ==
  \A c \in Callers :
    (cpc[c] = "idle" /\ cop'[c] = "connect" /\ ActiveSender) =>
      (cpc'[c] = "c_check" /\ UNCHANGED hvars)

C12_Refused ==
  \A c \in Callers :
    (cpc[c] = "c_check" /\ cpc'[c] # "c_check" /\ control_tx # NoSession) =>
      /\ last' = "connect:AlreadyActive"
      /\ cop'[c] = "none"
      /\ UNCHANGED <<hvars, lvars>>

C12_AlreadyActiveNoEffect == [][C12_BeginLeavesHandle /\ C12_Refused]_vars

\* connect() was refused with AlreadyActive on a connected handle whose loop is
\* still in its main loop.
C12_Witness ==
  /\ last = "connect:AlreadyActive"
  /\ control_tx # NoSession
  /\ join = control_tx
  /\ lpc[control_tx] = "select"
  /\ isConnected
  /\ \A c \in Callers : cop[c] = "none"

\* C13 as stated: a disconnect() call on a handle with no sender leaves every
\* handle field unchanged: its reconciliation finds nothing to clear (it goes
\* straight on to the sender check, without the writes of lib.rs:250-252), and
\* the sender check returns success leaving the handle as it is.
C13_Begins(c) == cpc[c] = "idle" /\ cop'[c] = "disconnect" /\ control_tx = NoSession
C13_Ends(c) == cpc[c] = "d_clone" /\ cpc'[c] # "d_clone" /\ control_tx = NoSession

C13_InCall(c) ==
  /\ control_tx = NoSession
  /\ \/ C13_Begins(c)
     \/ /\ cop[c] = "disconnect"
        /\ cpc[c] \in {"refresh_tx", "refresh_join", "d_clone"}
        /\ cpc'[c] # cpc[c]

\* C13, amended: disconnect() on a handle with no sender returns success,
\* enqueues no command and emits no event; it leaves sender, flag and identity
\* string unchanged, and the JoinHandle too unless that names a task that has
\* already finished, which reconciliation drops (the state connect() leaves
\* behind when it returns WorkerExited).  The handle then has no sender again,
\* so a repeated call does the same.
C13_Step ==
  \A c \in Callers :
    /\ C13_InCall(c) =>
         /\ UNCHANGED <<control_tx, connected, identity>>
         /\ \A s \in Sessions :
              SameTask(s) => (events'[s] = events[s] /\ control_rx'[s] = control_rx[s]
                               /\ enq'[s] = enq[s])
         /\ join' \in {join, NoSession}
         /\ (join' # join => IsFinished(join))
    /\ C13_Ends(c) =>
         /\ last' = "disconnect:noop"
         /\ cop'[c] = "none"
         /\ UNCHANGED <<hvars, lvars>>

C14_ReturnsFailure(c) ==
  /\ cop[c] = "connect"
  /\ cop'[c] = "none"
  /\ last' \in {"connect:Failed", "connect:WorkerExited"}

C14_ClearedOnFailure ==
  [][\A c \in Callers :
       C14_ReturnsFailure(c) =>
         (control_tx' = NoSession /\ join' = NoSession /\ ~connected')]_vars

\* C15 as stated: isConnected() never returns true for a handle whose loop
\* task has finished.
C15_FalseOnceFinished ==
  (join # NoSession /\ IsFinished(join)) => ~isConnected

\* ceil(n / d)
CeilDiv(n, d) == IF n % d = 0 THEN n \div d ELSE (n \div d) + 1

\* C16: for every input of N samples to_frames yields exactly
\* ceil(N / FrameSamples) windows of FrameSamples samples each (none for
\* N = 0); window k holds the input samples of its range in order, and every
\* position of the last window beyond the input is zero.
C16_Windows ==
  pipeline.applied =>
    LET samples == pipeline.samples
        frames == pipeline.frames
        N == Len(samples) IN
      /\ Len(frames) = CeilDiv(N, FrameSamples)
      /\ \A k \in 1 .. Len(frames) :
           /\ DOMAIN frames[k] = 1 .. FrameSamples
           /\ \A i \in 1 .. FrameSamples :
                LET pos == (k - 1) * FrameSamples + i IN
                  frames[k][i] = IF pos <= N THEN samples[pos] ELSE 0

\* Two and a half frames of nonzero samples gave three windows, the third one
\* half samples and half zeros (the 2400-sample scenario, scaled).
C16_Witness ==
  /\ pipeline.applied
  /\ Len(pipeline.samples) = 2 * FrameSamples + FrameSamples \div 2
  /\ \A i \in 1 .. Len(pipeline.samples) : pipeline.samples[i] # 0
  /\ Len(pipeline.frames) = 3
  /\ pipeline.frames[3][FrameSamples \div 2] # 0
  /\ pipeline.frames[3][FrameSamples \div 2 + 1] = 0
  /\ pipeline.frames[3][FrameSamples] = 0

C17_FlipEmits ==
  \A s \in Sessions :
    (lpc[s] = "select" /\ ~connected /\ connected') =>
      /\ events'[s] = Append(events[s], "connected")
      /\ ready'[s] = (IF ready[s] = "pending" THEN "ok" ELSE ready[s])

C17_EmitsOnlyOnFlip ==
  \A s \in Sessions :
    (SameTask(s) /\ CountOf(events'[s], "connected") > CountOf(events[s], "connected")) =>
      (~connected /\ connected')

C17_NoRepeat ==
  \A s \in Sessions :
    \A i \in 1 .. (Len(events[s]) - 1) :
      ~(events[s][i] = "connected" /\ events[s][i + 1] = "connected")

Errors ==
  {"error:E_CONNECT", "error:E_AUDIO_ENCODE", "error:E_DISCONNECT",
   "error:E_DISCONNECT_TIMEOUT", "error:E_STREAM"}

\* C18 as stated: a `disconnected` event with reason eof is preceded by an
\* `error` event, as the one with reason stream_error is.
C18_EofAfterError ==
  \A s \in Sessions :
    \A i \in 1 .. Len(events[s]) :
      events[s][i] = "disconnected:eof" => (i > 1 /\ events[s][i - 1] \in Errors)

\* C18, amended: at end-of-input in the main loop a pending readiness is
\* resolved with a failure, the flag is stored false and the loop emits
\* `disconnected` with reason eof and ends, without any `error` event; a
\* stream error does the same but emits the error event E_STREAM before its
\* `disconnected` with reason stream_error.
C18_ReadyResolved ==
  \A s \in Sessions :
    (lpc[s] = "exit" /\ why[s] \in {"eof", "stream_error"}) => ready[s] \in {"ok", "err"}

C18_Return ==
  \A s \in Sessions :
    (lpc[s] = "exit" /\ lpc'[s] = "finished") =>
      /\ why[s] = "eof" =>
           /\ events'[s] = Append(events[s], "disconnected:eof")
           /\ ~connected'
      /\ why[s] = "stream_error" =>
           /\ events'[s] = events[s] \o <<"error:E_STREAM", "disconnected:stream_error">>
           /\ ~connected'

C18_EofWithoutError == []C18_ReadyResolved /\ [][C18_Return]_vars

\* A connected session ended at end-of-input: `disconnected` with reason eof
\* directly follows `connected`.
C18_Witness ==
  \E s \in Sessions :
    /\ lpc[s] = "finished"
    /\ why[s] = "eof"
    /\ events[s] = <<"connected", "disconnected:eof">>
    /\ ~isConnected

\* C19 as stated, for the temporary-disconnect notice: inside the disconnect
\* drain it has the effects it has in the main loop: `reconnecting` is emitted
\* and the flag is false afterwards.
C19_DrainLikeMainLoop ==
  [][\A s \in Sessions :
       (lpc[s] = "drain" /\ lpc'[s] = "drain"
          /\ events'[s] = Append(events[s], "reconnecting")) => ~connected']_vars

\* C19, amended: inside the disconnect drain session events are not handled
\* as in the main loop: a temporary-disconnect notice only emits
\* `reconnecting` (the flag is left as it is), every other event (roster/state
\* sync, audio packet) is discarded: the flag, the readiness, the events and
\* the Speaker Mixer stay as they are; a fatal stream event ends the drain and
\* resolves the acknowledgement with a failure.
C19_DrainStep ==
  \A s \in Sessions :
    (lpc[s] = "drain" /\ lpc'[s] = "drain") =>
      /\ connected' = connected
      /\ ready'[s] = ready[s]
      /\ speaker_handlers'[s] = speaker_handlers[s]
      /\ audio'[s] = audio[s]
      /\ events'[s] \in {events[s], Append(events[s], "reconnecting")}

C19_DrainFatal ==
  \A s \in Sessions :
    (lpc[s] = "drain" /\ lpc'[s] = "exit" /\ why'[s] = "drain_error") =>
      /\ done'[drainBy[s]] = "err"
      /\ connected' = connected

C19_DrainDiscards == [][C19_DrainStep /\ C19_DrainFatal]_vars

\* Inside the drain a temporary-disconnect notice was reported while the flag
\* stayed true.
C19_Witness ==
  \E s \in Sessions :
    /\ lpc[s] = "drain"
    /\ isConnected
    /\ events[s] = <<"connected", "reconnecting">>

\* The error event of each failure outcome of a Disconnect command.
DisconnectError(w) ==
  CASE w = "disconnect_error" -> "error:E_DISCONNECT"
    [] w = "drain_error" -> "error:E_DISCONNECT"
    [] w = "drain_timeout" -> "error:E_DISCONNECT_TIMEOUT"

DisconnectFailures == {"disconnect_error", "drain_error", "drain_timeout"}

\* C20: the disconnect acknowledgement is resolved with success exactly when
\* the Session accepted the request and the stream then ended inside the drain
\* without a fatal stream event; in the three failure outcomes (request
\* rejected, fatal stream event in the drain, timeout) it carries a failure and
\* the loop emits the error event of that outcome right before `disconnected`;
\* disconnect() returns what the acknowledgement carries.
C20_AckMatchesOutcome ==
  \A s \in Sessions :
    (DisconnectDequeued(s) /\ lpc[s] = "exit") =>
      /\ why[s] \in DisconnectFailures \cup {"client_disconnect"}
      /\ done[drainBy[s]] = "ok" <=> why[s] = "client_disconnect"
      /\ why[s] \in DisconnectFailures => done[drainBy[s]] = "err"

C20_ErrorThenDisconnected ==
  \A s \in Sessions :
    (DisconnectDequeued(s) /\ lpc[s] = "exit" /\ lpc'[s] = "finished") =>
      /\ why[s] \in DisconnectFailures =>
           /\ Len(events'[s]) = Len(events[s]) + 2
           /\ events'[s][Len(events[s]) + 1] = DisconnectError(why[s])
           /\ events'[s][Len(events[s]) + 2] \in Disconnected
      /\ why[s] = "client_disconnect" =>
           events'[s] = Append(events[s], "disconnected:client_disconnect")

C20_CallReturnsAck ==
  \A c \in Callers :
    (cpc[c] = "d_join" /\ cop'[c] = "none") =>
      /\ last' = "disconnect:ok" <=> done[c] = "ok"
      /\ last' = "disconnect:Failed" <=> done[c] = "err"

C20_AckAndErrorEvent ==
  /\ []C20_AckMatchesOutcome
  /\ [][C20_ErrorThenDisconnected /\ C20_CallReturnsAck]_vars

\* A disconnect() has failed on the drain timeout: the loop reported
\* E_DISCONNECT_TIMEOUT and then `disconnected`.
C20_Witness ==
  \E s \in Sessions :
    /\ lpc[s] = "finished"
    /\ why[s] = "drain_timeout"
    /\ last = "disconnect:Failed"
    /\ events[s] = <<"connected", "error:E_DISCONNECT_TIMEOUT", "disconnected:client_disconnect">>

\* The ticker branch of select! runs for session s in this step.
TickStep(s) == lpc[s] = "select" /\ ticker[s] = "due" /\ ticker'[s] = "idle"

\* The task of session s is running (its locals exist).
Running(s) == lpc[s] \notin {"unspawned", "finished"} /\ lpc'[s] \notin {"unspawned"}

\* The positions of the steps of `tr` with operation `op`.
StepsOf(tr, op) == {i \in 1 .. Len(tr) : tr[i].op = op}

\* The event a step hands to the Event Bridge.
EventOf(step) == IF step.op = "audioSpeaker" THEN "audioSpeaker:" \o step.id ELSE step.op

\* The events of the steps of `tr`, in order.
EventsOf(tr) ==
  LET ev == SelectSeq(tr, LAMBDA x : x.op \in {"audioSpeaker", "audioMixed"})
  IN [i \in 1 .. Len(ev) |-> EventOf(ev[i])]

\* C21: a participant's handler comes into being only by an audio packet routed
\* from that participant in the main loop (a step that changes nothing else of
\* the session); a handler is removed in a step exactly when that step is a
\* timer tick and its buffer is empty after that tick's drain, and a handler
\* that is not removed at a tick has lost the frame the drain played out; the
\* removals of a tick come after every handler was drained and after the
\* tick's audioMixed event.
C21_CreatedByPacket ==
  \A s \in Sessions : \A p \in Talkers :
    (Running(s) /\ speaker_handlers[s][p] = Absent /\ speaker_handlers'[s][p] # Absent) =>
      /\ lpc[s] = "select" /\ lpc'[s] = "select"
      /\ speaker_handlers'[s][p] \in {0, 1}
      /\ \A q \in Talkers \ {p} : speaker_handlers'[s][q] = speaker_handlers[s][q]
      /\ events'[s] = events[s] /\ audio'[s] = audio[s] /\ mixer'[s] = mixer[s]
      /\ ticker'[s] = ticker[s]

C21_RemovedIffEmptyAtTick ==
  \A s \in Sessions : \A p \in Talkers :
    (Running(s) /\ speaker_handlers[s][p] # Absent) =>
      /\ speaker_handlers'[s][p] = Absent
           <=> (TickStep(s) /\ FillBuffer(speaker_handlers[s][p]) = 0)
      /\ (TickStep(s) /\ FillBuffer(speaker_handlers[s][p]) # 0)
           => speaker_handlers'[s][p] = speaker_handlers[s][p] - 1

C21_RemovalAfterMixed ==
  \A s \in Sessions :
    TickStep(s) =>
      LET tr == mixer'[s]
          before == speaker_handlers[s]
          after == speaker_handlers'[s]
      IN /\ Cardinality(StepsOf(tr, "audioMixed")) = 1
         /\ \A m \in StepsOf(tr, "audioMixed") :
              /\ \A i \in StepsOf(tr, "remove") : i > m
              /\ \A i \in StepsOf(tr, "fill_buffer") \cup StepsOf(tr, "audioSpeaker") : i < m
         /\ {tr[i].id : i \in StepsOf(tr, "fill_buffer")} = Present(before)
         /\ {tr[i].id : i \in StepsOf(tr, "remove")} = Present(before) \ Present(after)
         /\ Cardinality(StepsOf(tr, "remove")) = Cardinality(Present(before) \ Present(after))
         /\ EventsOf(tr) = audio'[s]

C21_SpeakerStateLifetime ==
  [][C21_CreatedByPacket /\ C21_RemovedIffEmptyAtTick /\ C21_RemovalAfterMixed]_vars

\* A tick has drained two handlers, removed the one whose buffer ran empty
\* after audioMixed, and kept the other.
C21_Witness ==
  \E s \in Sessions : \E p, q \in Talkers :
    /\ p # q
    /\ lpc[s] = "select"
    /\ speaker_handlers[s][p] = Absent
    /\ speaker_handlers[s][q] = 1
    /\ Len(mixer[s]) = 6
    /\ mixer[s][5] = [op |-> "audioMixed", id |-> "none"]
    /\ mixer[s][6] = [op |-> "remove", id |-> p]

\* The loop of session s takes a PushFrame command off its queue in this step.
PushStep(s) ==
  /\ lpc[s] = "select"
  /\ control_rx[s] # <<>>
  /\ RecvCmd(control_rx[s]).kind = "push"
  /\ deqCount'[s] = deqCount[s] + 1

ErrorSteps == {"error:E_AUDIO_ENCODE", "error:E_SEND_AUDIO"}

\* The positions of the steps of `tr` for window k with an operation in `ops`.
WindowSteps(tr, k, ops) == {i \in 1 .. Len(tr) : tr[i].window = k /\ tr[i].op \in ops}

\* C22: while one PushFrame command is processed, every window is encoded, in
\* order; a window whose encode fails emits exactly one error, E_AUDIO_ENCODE,
\* and is not sent; a window whose send fails emits exactly one error,
\* E_SEND_AUDIO; a window that succeeds emits none; the windows after a failed
\* one are still encoded and sent; the command changes neither the liveness
\* flag nor the readiness, emits no lifecycle event and leaves the loop in its
\* select!.
C22_OneErrorPerFailedWindow ==
  \A s \in Sessions :
    PushStep(s) =>
      LET o == encoder'[s].outcomes
          tr == encoder'[s].steps
      IN /\ \A i \in 1 .. Len(tr) : tr[i].window \in 1 .. Len(o)
         /\ \A k \in 1 .. Len(o) :
              /\ Cardinality(WindowSteps(tr, k, {"encode_float"})) = 1
              /\ Cardinality(WindowSteps(tr, k, {"send_audio"}))
                   = IF o[k] = "encode" THEN 0 ELSE 1
              /\ Cardinality(WindowSteps(tr, k, ErrorSteps))
                   = IF o[k] = "ok" THEN 0 ELSE 1
              /\ o[k] = "encode" =>
                   Cardinality(WindowSteps(tr, k, {"error:E_AUDIO_ENCODE"})) = 1
              /\ o[k] = "send" =>
                   Cardinality(WindowSteps(tr, k, {"error:E_SEND_AUDIO"})) = 1
         /\ \A i, j \in 1 .. Len(tr) : i < j => tr[i].window <= tr[j].window

C22_LoopGoesOn ==
  \A s \in Sessions :
    PushStep(s) =>
      /\ connected' = connected
      /\ lpc'[s] = "select"
      /\ ready'[s] = ready[s]
      /\ events'[s] = events[s]

C22_WindowFailureIsLocal ==
  [][C22_OneErrorPerFailedWindow /\ C22_LoopGoesOn]_vars

\* A command of two windows whose first window failed in send_audio and whose
\* second was encoded and sent, processed by a connected loop that goes on.
C22_Witness ==
  \E s \in Sessions :
    /\ lpc[s] = "select"
    /\ connected
    /\ encoder[s].outcomes = <<"send", "ok">>
    /\ Len(encoder[s].steps) = 5
    /\ encoder[s].steps[3] = [op |-> "error:E_SEND_AUDIO", window |-> 1]
    /\ encoder[s].steps[5] = [op |-> "send_audio", window |-> 2]

\* The loop tasks that have been spawned and have not ended.
LiveLoops == {s \in Sessions : lpc[s] \notin {"unspawned", "finished"}}

\* C23: at most one control loop task of the handle is live (spawned and not
\* ended) at any time, also while two connect calls run at once.
C23_OneLiveLoop == Cardinality(LiveLoops) <= 1

\* C24: every disconnect call that has begun eventually returns.
C24_DisconnectReturns ==
  \A c \in Callers : (cop[c] = "disconnect") ~> (cop[c] = "none")

\* A connect call has spawned its loop and not yet stored the sender
\* (between lib.rs:122 and lib.rs:124).
SenderNotStoredYet == \E c \in Callers : cop[c] = "connect" /\ cpc[c] = "c_tx"

C26_NothingFollows ==
  \A s \in Sessions : \A i \in 1 .. Len(events[s]) :
    events[s][i] \in Disconnected => i = Len(events[s])

C26_SilentAfterwards ==
  \A s \in Sessions :
    (HasDisconnected(s) /\ SameTask(s)) =>
      /\ lpc[s] = "finished"
      /\ events'[s] = events[s]
      /\ audio'[s] = audio[s]
      /\ deqCount'[s] = deqCount[s]

\* A disconnect call of caller c returns the result of its acknowledgement.
ReturnsAck(c) ==
  /\ cop[c] = "disconnect"
  /\ cop'[c] = "none"
  /\ last' \in {"disconnect:ok", "disconnect:Failed"}

C26_EndedAtReturn ==
  \A c \in Callers :
    ReturnsAck(c) =>
      \E s \in Sessions : drainBy[s] = c /\ IsFinished(s) /\ HasDisconnected(s)

C26_EndedAtJoinedReturn ==
  \A c \in Callers :
    (ReturnsAck(c) /\ csess[c] # NoSession) =>
      /\ drainBy[csess[c]] = c
      /\ IsFinished(csess[c])
      /\ HasDisconnected(csess[c])

====
